---- MODULE Spec2Model ----
(***************************************************************************)
(* The focus timer of My Planner (pages_timer.py) together with the parts  *)
(* of auth.py, app.py, pages_tasks.py and database.py it depends on.       *)
(*                                                                         *)
(* Every browser session owns a Streamlit session_state; the database      *)
(* (active_timers, time_logs, tasks) is shared by all sessions.  One       *)
(* action is one script run: the widget interaction that triggers it, the  *)
(* dashboard body, the button handler and, where the handler calls         *)
(* st.rerun(), the full rerun of the page that follows.                    *)
(*                                                                         *)
(* Time is counted in ticks, TicksPerSecond ticks to the second, so that   *)
(* the sub-second part of datetime.now() differences is visible.           *)
(***************************************************************************)
EXTENDS Integers, Sequences, FiniteSets, TLC

\* ------------------------------------------------------------------ bounds
MaxTime == 4
TicksPerSecond == 2
MaxLogs == 2
MaxMinutes == 2

\* ------------------------------------------------------- the small universe
Sessions == {"s1", "s2"}
Users == {1, 2}
TaskIds == {1, 2, 3}
CustomChoices == {1, 45}
Presets == {25, 45, 60}
ManualMinutes == {1, 25}
DefaultPomodoro == 25
NULL == 0
NoneTime == -1

\* tasks rows as created on the Tasks page: tasks 1 and 2 of user 1, 3 of user 2.
InitTasks == [t \in TaskIds |-> [user_id |-> IF t = 3 THEN 2 ELSE 1, status |-> "active"]]

VARIABLES ss, active_timers, time_logs, log_seq, tasks, now

vars == <<ss, active_timers, time_logs, log_seq, tasks, now>>

\* ----------------------------------------------- session_state dictionary
\* A key of st.session_state is a set: {} when the key is absent, {v} when it
\* holds v.  None is NULL for ids and NoneTime for timer_start.
Has(f) == f # {}
Val(f) == CHOOSE v \in f : TRUE
Get(f, d) == IF f = {} THEN d ELSE Val(f)

Fresh ==
  [user_id |-> {}, current_page |-> "tasks",
   timer_running |-> {}, timer_start |-> {}, timer_paused_elapsed |-> {},
   timer_task_id |-> {}, timer_subtask_id |-> {},
   pomodoro_minutes |-> {}, custom_pomodoro_minutes |-> {}, db_synced |-> {},
   timer_mode |-> "stopwatch", timer_task_select |-> {}, frag_tasks |-> {},
   exception |-> FALSE, confirm_delete |-> {}]

\* ------------------------------------------------------------ conversions
\* One minute of the wall clock, in ticks
MinuteTicks == 60 * TicksPerSecond

\* The readings of datetime.now(): up to MaxMinutes whole minutes and up to
\* MaxTime ticks.
ClockValues == {m * MinuteTicks + k : m \in 0..MaxMinutes, k \in 0..MaxTime}

\* datetime.isoformat() and datetime.fromisoformat()
IsoFormat(t) == "T" \o ToString(t)
FromIsoFormat(str) == CHOOSE t \in ClockValues : IsoFormat(t) = str

\* the is_running column: Python bool in, SQLite integer out, bool() on load
BoolToInt(b) == IF b THEN 1 ELSE 0
IntToBool(i) == i # 0

\* int(x) of a float number of seconds held in ticks: truncation toward zero
IntSeconds(e) == IF e >= 0 THEN e \div TicksPerSecond ELSE -((-e) \div TicksPerSecond)

\* Half-second readings e (in ticks of half a second) whose e / 2 / 60 is a
\* decimal tie x.xx5 that the float division leaves just below the tie, so
\* that round(., 2) goes down.  With three ticks to the second there is no tie.
FloatTiesDown ==
  {9, 15, 21, 51, 57, 69, 75, 87, 99, 117, 123, 129, 135, 153, 159, 183, 189,
   195, 213, 219, 243, 255, 261, 273, 291, 303, 315, 321, 333, 351, 363, 375,
   381, 393, 411, 423, 435, 441, 453, 471}

\* round(final_elapsed / 60, 2), as hundredths of a minute: 100*e/(60*TPS)
\* rounded to the nearest integer, a tie going where the float goes.
RoundAbs(e) ==
  ((200 * e + 60 * TicksPerSecond) \div (120 * TicksPerSecond))
    - (IF TicksPerSecond = 2 /\ e \in FloatTiesDown THEN 1 ELSE 0)
RoundMinutes(e) == IF e >= 0 THEN RoundAbs(e) ELSE -RoundAbs(-e)

\* Stored durations h (hundredths of a minute) whose float product h/100 * 60
\* falls just below the whole number of seconds
FloatBelow == {205, 410, 820, 845}

\* int(duration_minutes * 60) of a stored duration (hundredths of a minute)
DurationSeconds(h) ==
  IF h >= 0 THEN ((60 * h) \div 100) - (IF h \in FloatBelow THEN 1 ELSE 0)
  ELSE -((60 * (-h)) \div 100)

\* ------------------------------------------------------ the Session Store
get_active_timer(db, user_id) == {r \in db : r.user_id = user_id}

save_active_timer(db, user_id, task_id, start_time, paused_elapsed, is_running, mode, pomodoro_minutes, subtask_id) ==
  {r \in db : r.user_id # user_id} \cup
  {[user_id |-> user_id, task_id |-> task_id, start_time |-> start_time,
    paused_elapsed |-> paused_elapsed, is_running |-> BoolToInt(is_running),
    mode |-> mode, pomodoro_minutes |-> pomodoro_minutes, subtask_id |-> subtask_id]}

delete_active_timer(db, user_id) == {r \in db : r.user_id # user_id}

\* ---------------------------------------------------------- the time log
\* INSERT INTO time_logs: the foreign key on task_id is enforced
\* (PRAGMA foreign_keys = ON), so the insert raises for a task that is gone.
TaskExists(tk, task_id) == task_id \in DOMAIN tk /\ tk[task_id].status # "deleted"

add_time_log(logs, id, user_id, task_id, duration_minutes, note, source, subtask_id) ==
  logs \cup {[id |-> id, user_id |-> user_id, task_id |-> task_id,
              subtask_id |-> subtask_id, duration_minutes |-> duration_minutes,
              note |-> note, source |-> source]}

\* db.get_tasks(user_id, status='active') as the set of task ids
get_tasks(tk, user_id) == {t \in DOMAIN tk : tk[t].user_id = user_id /\ tk[t].status = "active"}

\* ------------------------------------------------------- render_timer_page
\* Widgets that are not rendered in a script run lose their state: the task
\* selectbox (key timer_task_select), the mode radio and the number input
\* (key custom_pomodoro_minutes).  The fragment's arguments go with them.
WidgetsGone(st) ==
  [st EXCEPT !.custom_pomodoro_minutes = {}, !.timer_task_select = {},
             !.timer_mode = "stopwatch", !.frag_tasks = {}]

\* "Initialize session state"
InitDefaults(st) ==
  [st EXCEPT !.timer_running = IF @ = {} THEN {FALSE} ELSE @,
             !.timer_start = IF @ = {} THEN {NoneTime} ELSE @,
             !.timer_paused_elapsed = IF @ = {} THEN {0} ELSE @]

\* "Load + sync from DB"
SyncFromDb(st, db, user_id) ==
  LET rows == get_active_timer(db, user_id) IN
  IF rows # {} /\ ~Get(st.db_synced, FALSE)
  THEN LET active_timer_db == CHOOSE r \in rows : TRUE IN
       [st EXCEPT !.timer_running = {IntToBool(active_timer_db.is_running)},
                  !.timer_start = {IF active_timer_db.start_time # ""
                                   THEN FromIsoFormat(active_timer_db.start_time)
                                   ELSE NoneTime},
                  !.timer_paused_elapsed = {active_timer_db.paused_elapsed},
                  !.timer_task_id = {active_timer_db.task_id},
                  !.timer_subtask_id = {active_timer_db.subtask_id},
                  !.pomodoro_minutes = {active_timer_db.pomodoro_minutes},
                  !.db_synced = {TRUE}]
  ELSE st

\* "Sync selectbox key -> active task"
SyncSelect(st, task_options) ==
  LET active_task_id == Get(st.timer_task_id, NULL) IN
  IF /\ active_task_id # NULL
     /\ (Val(st.timer_running) \/ Get(st.timer_paused_elapsed, 0) > 0)
     /\ active_task_id \in task_options
  THEN [st EXCEPT !.timer_task_select = {active_task_id}]
  ELSE st

\* The first option of the selectbox: get_tasks orders by created_at DESC.
FirstOption(task_options) == CHOOSE t \in task_options : \A o \in task_options : o <= t

\* selected_task_id: the selectbox value, or the first option when the key
\* holds nothing that is among the options.
SelectedTask(st) ==
  IF Has(st.timer_task_select) /\ Val(st.timer_task_select) \in st.frag_tasks
  THEN Val(st.timer_task_select)
  ELSE FirstOption(st.frag_tasks)

\* start_iso of the pomodoro-target save
StartIso(st) ==
  IF Get(st.timer_start, NoneTime) # NoneTime THEN IsoFormat(Val(st.timer_start)) ELSE ""

\* The configuration column of _render_timer_dashboard: task selectbox, mode
\* radio, preset buttons (preset = NULL when none is clicked), number input
\* and the save of a changed target.  Yields the new session state and store.
DashboardConfig(st, db, user_id, preset) ==
  LET st1 == [st EXCEPT !.timer_task_select = {SelectedTask(st)}] IN
  IF st1.timer_mode = "pomodoro"
  THEN LET st2 == IF preset # NULL THEN [st1 EXCEPT !.pomodoro_minutes = {preset}] ELSE st1
           st3 == IF st2.custom_pomodoro_minutes = {}
                  THEN [st2 EXCEPT !.custom_pomodoro_minutes =
                                      {Get(st2.pomodoro_minutes, DefaultPomodoro)}]
                  ELSE st2
           custom_min == Val(st3.custom_pomodoro_minutes)
       IN IF custom_min # Get(st3.pomodoro_minutes, DefaultPomodoro)
          THEN [st |-> [st3 EXCEPT !.pomodoro_minutes = {custom_min}],
                db |-> IF Has(st3.timer_task_id) \/ Get(st3.db_synced, FALSE)
                       THEN save_active_timer(db, user_id,
                              Get(st3.timer_task_id, Val(st3.timer_task_select)),
                              StartIso(st3),
                              Get(st3.timer_paused_elapsed, 0),
                              Get(st3.timer_running, FALSE),
                              "pomodoro", custom_min,
                              Get(st3.timer_subtask_id, NULL))
                       ELSE db]
          ELSE [st |-> st3, db |-> db]
  ELSE [st |-> [st1 EXCEPT !.custom_pomodoro_minutes = {}], db |-> db]

render_timer_page(st, db, tk) ==
  LET user_id == Val(st.user_id)
      task_options == get_tasks(tk, user_id)
  IN IF task_options = {}
     THEN [st |-> WidgetsGone(st), db |-> db]
     ELSE LET st1 == SyncSelect(SyncFromDb(InitDefaults(st), db, user_id), task_options)
          IN DashboardConfig([st1 EXCEPT !.frag_tasks = task_options], db, user_id, NULL)

\* A full script run of app.py: the login page, or the page router.
FullRun(st, db, tk) ==
  IF ~Has(st.user_id) THEN [st |-> WidgetsGone(st), db |-> db]
  ELSE IF st.current_page = "timer" THEN render_timer_page(st, db, tk)
  ELSE [st |-> WidgetsGone(st), db |-> db]

\* ------------------------------------------------- the timer column
\* An elapsed time that subtracts the open interval instead of adding it
Elapsed_Backwards(st, t) ==
  IF Val(st.timer_running) /\ Val(st.timer_start) # NoneTime
  THEN Val(st.timer_paused_elapsed) - (t - Val(st.timer_start))
  ELSE Get(st.timer_paused_elapsed, 0)

\* An elapsed time that counts the open interval whether the timer runs or not
Elapsed_AlwaysOpen(st, t) ==
  Val(st.timer_paused_elapsed) + (t - Val(st.timer_start))

\* "Calculate elapsed time" (a float number of seconds, here in ticks)
Elapsed(st, t) ==
  IF Val(st.timer_running) /\ Val(st.timer_start) # NoneTime
  THEN Val(st.timer_paused_elapsed) + (t - Val(st.timer_start))
  ELSE Get(st.timer_paused_elapsed, 0)

\* elapsed = int(elapsed): what the page shows
ShownElapsed(st, t) == IntSeconds(Elapsed(st, t))

\* the elapsed of "Pause" and of "Stop & Save" while running
CurrentElapsed(st, t) ==
  IF Val(st.timer_start) # NoneTime
  THEN Val(st.timer_paused_elapsed) + (t - Val(st.timer_start))
  ELSE Get(st.timer_paused_elapsed, 0)

\* The dashboard is on screen in session s.
OnTimer(s) ==
  /\ Has(ss[s].user_id)
  /\ ss[s].current_page = "timer"
  /\ ss[s].frag_tasks # {}

\* total_seconds = st.session_state.get('pomodoro_minutes', 25) * 60
TotalSeconds(st) == Get(st.pomodoro_minutes, DefaultPomodoro) * 60

\* remaining of js_timer_component as update() computes it when the
\* component is rendered at time t, without the clamp at 0
Remaining_NoClamp(st, t) == TotalSeconds(st) - ShownElapsed(st, t)

\* remaining = Math.max(0, totalSeconds - current), with total_seconds =
\* pomodoro_minutes * 60 and current the elapsed seconds handed to the component
Remaining(st, t) ==
  LET total_seconds == TotalSeconds(st)
      current == ShownElapsed(st, t)
  IN IF total_seconds - current > 0 THEN total_seconds - current ELSE 0

\* The three states of the controls
NotStarted(st, t) == ~Val(st.timer_running) /\ ShownElapsed(st, t) = 0
Paused(st, t) == ~Val(st.timer_running) /\ ShownElapsed(st, t) # 0
Running(st) == Val(st.timer_running)

\* ------------------------------------------------------------ the actions
Init ==
  /\ ss = [s \in Sessions |-> Fresh]
  /\ active_timers = {}
  /\ time_logs = {}
  /\ log_seq = 0
  /\ tasks = InitTasks
  /\ now = 0

\* A script run of session s ends with session state and store taken from r.
\* The field exception tells whether the run ended in an uncaught exception,
\* which Streamlit shows on the page in place of the rest of the run.
Ends(s, r) ==
  /\ ss' = [ss EXCEPT ![s] = [r.st EXCEPT !.exception = FALSE]]
  /\ active_timers' = r.db

\* A script run of session s is cut short by an uncaught exception: the
\* assignments made so far stay in st.session_state, the store is as it was.
Raises(s, st) ==
  /\ ss' = [ss EXCEPT ![s] = [st EXCEPT !.exception = TRUE]]
  /\ active_timers' = active_timers

\* The wall clock advances.
Tick ==
  /\ now < MaxTime
  /\ now' = now + 1
  /\ UNCHANGED <<ss, active_timers, time_logs, log_seq, tasks>>

\* The wall clock is set back (datetime.now() is the naive local time of the
\* server: a clock adjustment, the end of daylight saving time).  It is set
\* back only while no paused time is held anywhere, which keeps
\* paused_elapsed within -MaxTime .. MaxTime.
ClockBack ==
  /\ now > 0
  /\ \A s \in Sessions : Get(ss[s].timer_paused_elapsed, 0) = 0
  /\ \A r \in active_timers : r.paused_elapsed = 0
  /\ now' = now - 1
  /\ UNCHANGED <<ss, active_timers, time_logs, log_seq, tasks>>

\* A minute passes.
Minute ==
  /\ now \div MinuteTicks < MaxMinutes
  /\ now' = now + MinuteTicks
  /\ UNCHANGED <<ss, active_timers, time_logs, log_seq, tasks>>

\* login_user, then st.rerun()
Login(s, u) ==
  /\ ~Has(ss[s].user_id)
  /\ Ends(s, FullRun([ss[s] EXCEPT !.user_id = {u}], active_timers, tasks))
  /\ UNCHANGED <<time_logs, log_seq, tasks, now>>

\* logout_user, then st.rerun()
Logout(s) ==
  /\ Has(ss[s].user_id)
  /\ Ends(s, FullRun([ss[s] EXCEPT !.user_id = {}, !.timer_running = {},
                                   !.timer_start = {}, !.timer_task_id = {}],
                     active_timers, tasks))
  /\ UNCHANGED <<time_logs, log_seq, tasks, now>>

\* The user of session s logs out and another user u logs in, in the same
\* browser session: the script run of Logout followed by the one of Login.
SwitchUser(s, u) ==
  /\ Has(ss[s].user_id)
  /\ u # Val(ss[s].user_id)
  /\ LET out == FullRun([ss[s] EXCEPT !.user_id = {}, !.timer_running = {},
                                      !.timer_start = {}, !.timer_task_id = {}],
                        active_timers, tasks)
     IN Ends(s, FullRun([out.st EXCEPT !.user_id = {u}], out.db, tasks))
  /\ UNCHANGED <<time_logs, log_seq, tasks, now>>

\* The browser reloads the page: a new session_state; is_authenticated restores
\* the user from the URL token, and the page router starts on the Tasks page.
Reload(s) ==
  /\ Has(ss[s].user_id)
  /\ Ends(s, FullRun([Fresh EXCEPT !.user_id = ss[s].user_id], active_timers, tasks))
  /\ UNCHANGED <<time_logs, log_seq, tasks, now>>

\* A sidebar navigation button, then st.rerun()
Navigate(s, page) ==
  /\ Has(ss[s].user_id)
  /\ page # ss[s].current_page
  /\ Ends(s, FullRun([ss[s] EXCEPT !.current_page = page], active_timers, tasks))
  /\ UNCHANGED <<time_logs, log_seq, tasks, now>>

\* The Refresh button: a full rerun of the current page.
Refresh(s) ==
  /\ Has(ss[s].user_id)
  /\ Ends(s, FullRun(ss[s], active_timers, tasks))
  /\ UNCHANGED <<time_logs, log_seq, tasks, now>>

\* The task selectbox changes: a fragment rerun.
SelectTask(s, t) ==
  /\ OnTimer(s)
  /\ t \in ss[s].frag_tasks
  /\ t # Val(ss[s].timer_task_select)
  /\ Ends(s, DashboardConfig([ss[s] EXCEPT !.timer_task_select = {t}],
                             active_timers, Val(ss[s].user_id), NULL))
  /\ UNCHANGED <<time_logs, log_seq, tasks, now>>

\* The mode radio changes: a fragment rerun.
SetMode(s, mode) ==
  /\ OnTimer(s)
  /\ mode # ss[s].timer_mode
  /\ Ends(s, DashboardConfig([ss[s] EXCEPT !.timer_mode = mode],
                             active_timers, Val(ss[s].user_id), NULL))
  /\ UNCHANGED <<time_logs, log_seq, tasks, now>>

\* A preset button ("25 min", "45 min", "60 min"): a fragment rerun.
Preset(s, p) ==
  /\ OnTimer(s)
  /\ ss[s].timer_mode = "pomodoro"
  /\ Ends(s, DashboardConfig(ss[s], active_timers, Val(ss[s].user_id), p))
  /\ UNCHANGED <<time_logs, log_seq, tasks, now>>

\* The "Custom (minutes)" number input changes: a fragment rerun.
SetCustom(s, m) ==
  /\ OnTimer(s)
  /\ ss[s].timer_mode = "pomodoro"
  /\ m # Val(ss[s].custom_pomodoro_minutes)
  /\ Ends(s, DashboardConfig([ss[s] EXCEPT !.custom_pomodoro_minutes = {m}],
                             active_timers, Val(ss[s].user_id), NULL))
  /\ UNCHANGED <<time_logs, log_seq, tasks, now>>

\* A Start that refuses to overwrite an existing snapshot (the first writer
\* wins): what the handler of "Start" would be if it kept the row it finds.
StartHandler_KeepsExistingRow(st, db, user_id, t) ==
  LET selected_task_id == Val(st.timer_task_select)
      selected_subtask_id == NULL
  IN [st |-> [st EXCEPT !.timer_running = {TRUE}, !.timer_start = {t},
                        !.timer_task_id = {selected_task_id},
                        !.timer_subtask_id = {selected_subtask_id},
                        !.db_synced = {TRUE}],
      db |-> IF get_active_timer(db, user_id) # {} THEN db
             ELSE save_active_timer(db, user_id, selected_task_id, IsoFormat(t), 0, TRUE,
                                    st.timer_mode, Get(st.pomodoro_minutes, DefaultPomodoro),
                                    selected_subtask_id)]

\* The handler of "Start": lines 408-418, before st.rerun()
StartHandler(st, db, user_id, t) ==
  LET selected_task_id == Val(st.timer_task_select)
      selected_subtask_id == NULL
      mode_str == st.timer_mode
      pom_mins == Get(st.pomodoro_minutes, DefaultPomodoro)
  IN [st |-> [st EXCEPT !.timer_running = {TRUE}, !.timer_start = {t},
                        !.timer_task_id = {selected_task_id},
                        !.timer_subtask_id = {selected_subtask_id},
                        !.db_synced = {TRUE}],
      db |-> save_active_timer(db, user_id, selected_task_id, IsoFormat(t),
                               0, TRUE, mode_str, pom_mins, selected_subtask_id)]

\* The handler of "Resume": lines 425-436
ResumeHandler(st, db, user_id, t) ==
  LET selected_task_id == Val(st.timer_task_select)
      mode_str == st.timer_mode
      pom_mins == Get(st.pomodoro_minutes, DefaultPomodoro)
  IN [st |-> [st EXCEPT !.timer_running = {TRUE}, !.timer_start = {t},
                        !.db_synced = {TRUE}],
      db |-> save_active_timer(db, user_id, Get(st.timer_task_id, selected_task_id),
                               IsoFormat(t), Val(st.timer_paused_elapsed),
                               TRUE, mode_str, pom_mins,
                               Get(st.timer_subtask_id, NULL))]

\* A Pause that forgets to clear timer_start (line 463 left out)
PauseHandler_KeepsStart(st, db, user_id, t) ==
  LET selected_task_id == Val(st.timer_task_select)
      mode_str == st.timer_mode
      pom_mins == Get(st.pomodoro_minutes, DefaultPomodoro)
      current_elapsed == CurrentElapsed(st, t)
  IN [st |-> [st EXCEPT !.timer_running = {FALSE},
                        !.timer_paused_elapsed = {current_elapsed}],
      db |-> save_active_timer(db, user_id, Get(st.timer_task_id, selected_task_id),
                               "", current_elapsed, FALSE, mode_str, pom_mins,
                               Get(st.timer_subtask_id, NULL))]

\* The handler of "Pause": lines 455-472
PauseHandler(st, db, user_id, t) ==
  LET selected_task_id == Val(st.timer_task_select)
      mode_str == st.timer_mode
      pom_mins == Get(st.pomodoro_minutes, DefaultPomodoro)
      current_elapsed == CurrentElapsed(st, t)
  IN [st |-> [st EXCEPT !.timer_running = {FALSE},
                        !.timer_paused_elapsed = {current_elapsed},
                        !.timer_start = {NoneTime}],
      db |-> save_active_timer(db, user_id, Get(st.timer_task_id, selected_task_id),
                               "", current_elapsed, FALSE, mode_str, pom_mins,
                               Get(st.timer_subtask_id, NULL))]

\* A Reset that clears the session but leaves the snapshot in the store
ResetHandler_KeepsSnapshot(st, db, user_id) ==
  [st |-> [st EXCEPT !.timer_paused_elapsed = {0}, !.db_synced = {FALSE}],
   db |-> db]

\* The handler of "Reset": lines 445-448
ResetHandler(st, db, user_id) ==
  [st |-> [st EXCEPT !.timer_paused_elapsed = {0}, !.db_synced = {FALSE}],
   db |-> delete_active_timer(db, user_id)]

\* "Start"
Start(s) ==
  /\ OnTimer(s)
  /\ NotStarted(ss[s], now)
  /\ LET user_id == Val(ss[s].user_id)
         c == DashboardConfig(ss[s], active_timers, user_id, NULL)
         h == StartHandler(c.st, c.db, user_id, now)
     IN Ends(s, FullRun(h.st, h.db, tasks))
  /\ UNCHANGED <<time_logs, log_seq, tasks, now>>

\* "Resume"
Resume(s) ==
  /\ OnTimer(s)
  /\ Paused(ss[s], now)
  /\ LET user_id == Val(ss[s].user_id)
         c == DashboardConfig(ss[s], active_timers, user_id, NULL)
         h == ResumeHandler(c.st, c.db, user_id, now)
     IN Ends(s, FullRun(h.st, h.db, tasks))
  /\ UNCHANGED <<time_logs, log_seq, tasks, now>>

\* "Pause"
Pause(s) ==
  /\ OnTimer(s)
  /\ Running(ss[s])
  /\ LET user_id == Val(ss[s].user_id)
         c == DashboardConfig(ss[s], active_timers, user_id, NULL)
         h == PauseHandler(c.st, c.db, user_id, now)
     IN Ends(s, FullRun(h.st, h.db, tasks))
  /\ UNCHANGED <<time_logs, log_seq, tasks, now>>

\* "Reset"
Reset(s) ==
  /\ OnTimer(s)
  /\ Paused(ss[s], now)
  /\ LET user_id == Val(ss[s].user_id)
         c == DashboardConfig(ss[s], active_timers, user_id, NULL)
         h == ResetHandler(c.st, c.db, user_id)
     IN Ends(s, FullRun(h.st, h.db, tasks))
  /\ UNCHANGED <<time_logs, log_seq, tasks, now>>

\* "if do_save:" with the final_elapsed of the Stop button that was pressed.
\* The snapshot is deleted first; add_time_log raises when the task row is
\* gone, and the run ends there.
DoSave(s, c, final_elapsed) ==
  LET user_id == Val(ss[s].user_id)
      selected_task_id == Val(c.st.timer_task_select)
      db1 == delete_active_timer(c.db, user_id)
      st1 == [c.st EXCEPT !.db_synced = {FALSE}]
      task_id == Get(st1.timer_task_id, selected_task_id)
      subtask_id == Get(st1.timer_subtask_id, NULL)
      st2 == [st1 EXCEPT !.timer_running = {FALSE}, !.timer_start = {NoneTime},
                         !.timer_paused_elapsed = {0}]
  IN IF TaskExists(tasks, task_id)
     THEN /\ time_logs' = add_time_log(time_logs, log_seq + 1, user_id, task_id,
                                       RoundMinutes(final_elapsed), "Timer session",
                                       "timer", subtask_id)
          /\ log_seq' = log_seq + 1
          /\ Ends(s, FullRun(st2, db1, tasks))
     ELSE /\ UNCHANGED <<time_logs, log_seq>>
          /\ ss' = [ss EXCEPT ![s] = [st1 EXCEPT !.exception = TRUE]]
          /\ active_timers' = db1

\* "Stop & Save" (key stop_paused)
StopPaused(s) ==
  /\ OnTimer(s)
  /\ Paused(ss[s], now)
  /\ log_seq < MaxLogs
  /\ LET c == DashboardConfig(ss[s], active_timers, Val(ss[s].user_id), NULL)
     IN DoSave(s, c, Get(c.st.timer_paused_elapsed, 0))
  /\ UNCHANGED <<tasks, now>>

\* "Stop & Save" (key stop_running)
StopRunning(s) ==
  /\ OnTimer(s)
  /\ Running(ss[s])
  /\ log_seq < MaxLogs
  /\ LET c == DashboardConfig(ss[s], active_timers, Val(ss[s].user_id), NULL)
     IN DoSave(s, c, CurrentElapsed(c.st, now))
  /\ UNCHANGED <<tasks, now>>

\* ---------------------------------------------- the Session Store fails
\* The same interactions when the call to the store raises (the connection
\* is lost, the HTTP request fails).

\* "Start": save_active_timer raises after lines 408-411
StartStoreFails(s) ==
  /\ OnTimer(s)
  /\ NotStarted(ss[s], now)
  /\ LET user_id == Val(ss[s].user_id)
         c == DashboardConfig(ss[s], active_timers, user_id, NULL)
         h == StartHandler(c.st, c.db, user_id, now)
     IN Raises(s, [h.st EXCEPT !.db_synced = c.st.db_synced])
  /\ UNCHANGED <<time_logs, log_seq, tasks, now>>

\* "Resume": save_active_timer raises after lines 425-426
ResumeStoreFails(s) ==
  /\ OnTimer(s)
  /\ Paused(ss[s], now)
  /\ LET user_id == Val(ss[s].user_id)
         c == DashboardConfig(ss[s], active_timers, user_id, NULL)
         h == ResumeHandler(c.st, c.db, user_id, now)
     IN Raises(s, [h.st EXCEPT !.db_synced = c.st.db_synced])
  /\ UNCHANGED <<time_logs, log_seq, tasks, now>>

\* "Pause": save_active_timer raises after lines 461-463
PauseStoreFails(s) ==
  /\ OnTimer(s)
  /\ Running(ss[s])
  /\ LET user_id == Val(ss[s].user_id)
         c == DashboardConfig(ss[s], active_timers, user_id, NULL)
         h == PauseHandler(c.st, c.db, user_id, now)
     IN Raises(s, h.st)
  /\ UNCHANGED <<time_logs, log_seq, tasks, now>>

\* "Reset": delete_active_timer raises after line 445
ResetStoreFails(s) ==
  /\ OnTimer(s)
  /\ Paused(ss[s], now)
  /\ LET user_id == Val(ss[s].user_id)
         c == DashboardConfig(ss[s], active_timers, user_id, NULL)
     IN Raises(s, [c.st EXCEPT !.timer_paused_elapsed = {0}])
  /\ UNCHANGED <<time_logs, log_seq, tasks, now>>

\* "Stop & Save": delete_active_timer of line 488 raises
StopStoreFails(s) ==
  /\ OnTimer(s)
  /\ Running(ss[s]) \/ Paused(ss[s], now)
  /\ LET c == DashboardConfig(ss[s], active_timers, Val(ss[s].user_id), NULL)
     IN Raises(s, c.st)
  /\ UNCHANGED <<time_logs, log_seq, tasks, now>>

\* The custom minutes change and save_active_timer of line 346 raises inside
\* "try: ... except Exception: pass": the run goes on to its end.
SetCustomStoreFails(s, m) ==
  /\ OnTimer(s)
  /\ ss[s].timer_mode = "pomodoro"
  /\ m # Val(ss[s].custom_pomodoro_minutes)
  /\ m # Get(ss[s].pomodoro_minutes, DefaultPomodoro)
  /\ Has(ss[s].timer_task_id) \/ Get(ss[s].db_synced, FALSE)
  /\ LET c == DashboardConfig([ss[s] EXCEPT !.custom_pomodoro_minutes = {m}],
                              active_timers, Val(ss[s].user_id), NULL)
     IN Ends(s, [st |-> c.st, db |-> active_timers])
  /\ UNCHANGED <<time_logs, log_seq, tasks, now>>

\* The Focus Timer page is opened and get_active_timer of line 159 raises.
LoadStoreFails(s) ==
  /\ Has(ss[s].user_id)
  /\ ss[s].current_page # "timer"
  /\ get_tasks(tasks, Val(ss[s].user_id)) # {}
  /\ Raises(s, InitDefaults([ss[s] EXCEPT !.current_page = "timer"]))
  /\ UNCHANGED <<time_logs, log_seq, tasks, now>>

\* Tasks page: the checkbox that completes a task (update_task status='completed')
CompleteTask(s, t) ==
  /\ Has(ss[s].user_id)
  /\ ss[s].current_page = "tasks"
  /\ tasks[t].user_id = Val(ss[s].user_id)
  /\ tasks[t].status = "active"
  /\ tasks' = [tasks EXCEPT ![t].status = "completed"]
  /\ UNCHANGED <<ss, active_timers, time_logs, log_seq, now>>

\* Tasks page: a confirmed delete of a task (delete_task); the time logs of
\* the task go with it (ON DELETE CASCADE).
DeleteTask(s, t) ==
  /\ Has(ss[s].user_id)
  /\ ss[s].current_page = "tasks"
  /\ tasks[t].user_id = Val(ss[s].user_id)
  /\ tasks[t].status # "deleted"
  /\ tasks' = [tasks EXCEPT ![t].status = "deleted"]
  /\ time_logs' = {l \in time_logs : l.task_id # t}
  /\ UNCHANGED <<ss, active_timers, log_seq, now>>

\* Tasks page, "Log Time" panel: the save button calls add_time_log with the
\* whole minutes of the number input (min_value=1), source "manual".
ManualLog(s, t, minutes) ==
  /\ Has(ss[s].user_id)
  /\ ss[s].current_page = "tasks"
  /\ tasks[t].user_id = Val(ss[s].user_id)
  /\ TaskExists(tasks, t)
  /\ log_seq < MaxLogs
  /\ time_logs' = add_time_log(time_logs, log_seq + 1, Val(ss[s].user_id), t,
                               minutes * 100, "", "manual", NULL)
  /\ log_seq' = log_seq + 1
  /\ UNCHANGED <<ss, active_timers, tasks, now>>

\* "Today's Sessions": the delete button of one entry (request_delete, full
\* rerun) and "Yes, delete" in the dialog (delete_time_log, full rerun).
DeleteTimeLog(s, id) ==
  /\ OnTimer(s)
  /\ \E l \in time_logs : l.id = id /\ l.user_id = Val(ss[s].user_id)
  /\ time_logs' = {l \in time_logs : l.id # id}
  /\ LET asked == FullRun(ss[s], active_timers, tasks)
     IN Ends(s, FullRun(asked.st, asked.db, tasks))
  /\ UNCHANGED <<log_seq, tasks, now>>

\* One browser session of user 1: the timer, page loads and the task selectbox.
Next ==
  \/ Tick
  \/ Login("s1", 1)
  \/ Reload("s1")
  \/ \E page \in {"tasks", "timer"} : Navigate("s1", page)
  \/ Refresh("s1")
  \/ \E t \in TaskIds : SelectTask("s1", t)
  \/ Start("s1")
  \/ Pause("s1")
  \/ Resume("s1")
  \/ Reset("s1")
  \/ StopPaused("s1")
  \/ StopRunning("s1")

Spec == Init /\ [][Next]_vars

\* One browser session of user 1: the timer and its mode and pomodoro target.
NextPom ==
  \/ Tick
  \/ Minute
  \/ Login("s1", 1)
  \/ Navigate("s1", "timer")
  \/ \E mode \in {"stopwatch", "pomodoro"} : SetMode("s1", mode)
  \/ \E p \in Presets : Preset("s1", p)
  \/ \E m \in CustomChoices : SetCustom("s1", m)
  \/ Start("s1")
  \/ Pause("s1")
  \/ Resume("s1")
  \/ Reset("s1")
  \/ StopPaused("s1")
  \/ StopRunning("s1")

SpecPom == Init /\ [][NextPom]_vars

\* One browser session of user 1: the timer and the Tasks page.
NextTasks ==
  \/ Tick
  \/ Login("s1", 1)
  \/ \E page \in {"tasks", "timer"} : Navigate("s1", page)
  \/ \E t \in TaskIds : SelectTask("s1", t)
  \/ Start("s1")
  \/ Pause("s1")
  \/ Resume("s1")
  \/ Reset("s1")
  \/ StopPaused("s1")
  \/ StopRunning("s1")
  \/ \E t \in TaskIds : CompleteTask("s1", t)
  \/ \E t \in TaskIds : DeleteTask("s1", t)
  \/ \E t \in TaskIds, minutes \in ManualMinutes : ManualLog("s1", t, minutes)
  \/ \E id \in 1..MaxLogs : DeleteTimeLog("s1", id)

SpecTasks == Init /\ [][NextTasks]_vars

\* One browser session of user 1 whose calls to the store may fail.
NextFail ==
  \/ Tick
  \/ Login("s1", 1)
  \/ \E page \in {"tasks", "timer"} : Navigate("s1", page)
  \/ \E mode \in {"stopwatch", "pomodoro"} : SetMode("s1", mode)
  \/ \E m \in CustomChoices : SetCustom("s1", m)
  \/ Start("s1")
  \/ Pause("s1")
  \/ Resume("s1")
  \/ Reset("s1")
  \/ StopPaused("s1")
  \/ StopRunning("s1")
  \/ StartStoreFails("s1")
  \/ PauseStoreFails("s1")
  \/ ResumeStoreFails("s1")
  \/ ResetStoreFails("s1")
  \/ StopStoreFails("s1")
  \/ \E m \in CustomChoices : SetCustomStoreFails("s1", m)
  \/ LoadStoreFails("s1")

SpecFail == Init /\ [][NextFail]_vars

\* One browser session of user 1 under a wall clock that may be set back.
NextClock ==
  \/ Tick
  \/ ClockBack
  \/ Login("s1", 1)
  \/ \E page \in {"tasks", "timer"} : Navigate("s1", page)
  \/ Start("s1")
  \/ Pause("s1")
  \/ Resume("s1")
  \/ Reset("s1")
  \/ StopPaused("s1")
  \/ StopRunning("s1")

SpecClock == Init /\ [][NextClock]_vars

\* Two browser sessions of user 1 on the timer page.
NextTwo ==
  \/ Tick
  \/ \E s \in Sessions : Login(s, 1)
  \/ \E s \in Sessions : Navigate(s, "timer")
  \/ \E s \in Sessions : Refresh(s)
  \/ \E s \in Sessions : Start(s)
  \/ \E s \in Sessions : Pause(s)
  \/ \E s \in Sessions : Resume(s)
  \/ \E s \in Sessions : Reset(s)
  \/ \E s \in Sessions : StopPaused(s)
  \/ \E s \in Sessions : StopRunning(s)

SpecTwo == Init /\ [][NextTwo]_vars

\* One browser session in which the two users log in and out.
NextAuth ==
  \/ Tick
  \/ \E u \in Users : Login("s1", u)
  \/ Logout("s1")
  \/ \E u \in Users : SwitchUser("s1", u)
  \/ Navigate("s1", "timer")
  \/ Start("s1")
  \/ Pause("s1")
  \/ Resume("s1")
  \/ Reset("s1")
  \/ StopPaused("s1")
  \/ StopRunning("s1")

SpecAuth == Init /\ [][NextAuth]_vars

\* ------------------------------------------------ delete confirmation
\* DELETE FROM tasks WHERE id = ?
delete_task(tk, task_id) ==
  [t \in DOMAIN tk |-> IF t = task_id THEN [tk[t] EXCEPT !.status = "deleted"] ELSE tk[t]]

\* time_logs.task_id REFERENCES tasks(id) ON DELETE CASCADE
OnDeleteCascade(logs, task_id) == {l \in logs : l.task_id # task_id}

\* DELETE FROM time_logs WHERE id = ?
delete_time_log(logs, log_id) == {l \in logs : l.id # log_id}

\* The confirmation box is on screen: the Tasks page always renders it, the
\* Focus Timer page only after its "if not tasks: return".
DialogShown(s) ==
  /\ Has(ss[s].user_id)
  /\ Has(ss[s].confirm_delete)
  /\ ss[s].current_page = "tasks" \/ OnTimer(s)

\* request_delete(kind, id): the delete button of a task row on the Tasks
\* page, or of a row of Today's Sessions on the Focus Timer page.
RequestDelete(s, kind, id) ==
  /\ Has(ss[s].user_id)
  /\ \/ /\ kind = "task"
        /\ ss[s].current_page = "tasks"
        /\ id \in TaskIds
        /\ tasks[id].user_id = Val(ss[s].user_id)
        /\ TaskExists(tasks, id)
     \/ /\ kind = "timelog"
        /\ OnTimer(s)
        /\ \E l \in time_logs : l.id = id /\ l.user_id = Val(ss[s].user_id)
  /\ Ends(s, FullRun([ss[s] EXCEPT !.confirm_delete = {[kind |-> kind, id |-> id]}],
                     active_timers, tasks))
  /\ UNCHANGED <<time_logs, log_seq, tasks, now>>

\* "Yes, delete": the delete of the pending item, then pop and st.rerun()
ConfirmYes(s) ==
  /\ DialogShown(s)
  /\ LET cd == Val(ss[s].confirm_delete)
         tk == IF cd.kind = "task" THEN delete_task(tasks, cd.id) ELSE tasks
     IN /\ tasks' = tk
        /\ time_logs' = IF cd.kind = "task" THEN OnDeleteCascade(time_logs, cd.id)
                        ELSE delete_time_log(time_logs, cd.id)
        /\ Ends(s, FullRun([ss[s] EXCEPT !.confirm_delete = {}], active_timers, tk))
  /\ UNCHANGED <<log_seq, now>>

\* "Yes, delete" when the delete raises: the finally clause pops the request
\* and st.rerun() replaces the exception.
ConfirmYesStoreFails(s) ==
  /\ DialogShown(s)
  /\ Ends(s, FullRun([ss[s] EXCEPT !.confirm_delete = {}], active_timers, tasks))
  /\ UNCHANGED <<time_logs, log_seq, tasks, now>>

\* "Cancel": pop and st.rerun()
ConfirmCancel(s) ==
  /\ DialogShown(s)
  /\ Ends(s, FullRun([ss[s] EXCEPT !.confirm_delete = {}], active_timers, tasks))
  /\ UNCHANGED <<time_logs, log_seq, tasks, now>>

\* One browser session of user 1 that logs time and deletes tasks and time
\* log entries through the confirmation box of either page.
NextConfirm ==
  \/ Tick
  \/ Login("s1", 1)
  \/ \E page \in {"tasks", "timer"} : Navigate("s1", page)
  \/ \E t \in TaskIds : \E m \in ManualMinutes : ManualLog("s1", t, m)
  \/ Start("s1")
  \/ StopRunning("s1")
  \/ \E t \in TaskIds : RequestDelete("s1", "task", t)
  \/ \E id \in 1..MaxLogs : RequestDelete("s1", "timelog", id)
  \/ ConfirmYes("s1")
  \/ ConfirmYesStoreFails("s1")
  \/ ConfirmCancel("s1")

SpecConfirm == Init /\ [][NextConfirm]_vars

\* One browser session in which user 1 logs out and in again and chooses
\* among their tasks.
NextRelog ==
  \/ Tick
  \/ Login("s1", 1)
  \/ Logout("s1")
  \/ Navigate("s1", "timer")
  \/ \E t \in TaskIds : SelectTask("s1", t)
  \/ Start("s1")
  \/ Pause("s1")
  \/ Resume("s1")
  \/ Reset("s1")
  \/ StopPaused("s1")
  \/ StopRunning("s1")

SpecRelog == Init /\ [][NextRelog]_vars

\* One browser session of user 1 that is reloaded while a stopwatch or a
\* pomodoro timer is persisted.
NextRecover ==
  \/ Tick
  \/ Login("s1", 1)
  \/ Reload("s1")
  \/ Navigate("s1", "timer")
  \/ \E mode \in {"stopwatch", "pomodoro"} : SetMode("s1", mode)
  \/ Start("s1")
  \/ Pause("s1")
  \/ Resume("s1")
  \/ Reset("s1")
  \/ StopPaused("s1")
  \/ StopRunning("s1")

SpecRecover == Init /\ [][NextRecover]_vars

\* ------------------------------------------------------------- properties
\* The snapshot rows of the user logged in to session s
Snapshot(s) == get_active_timer(active_timers, Val(ss[s].user_id))

\* The task a Stop of session s logs: timer_task_id, else the selectbox value
SessionTask(s) == Get(ss[s].timer_task_id, Val(ss[s].timer_task_select))

\* The final_elapsed of a Stop pressed in session s at this instant
FinalElapsed(s) ==
  IF Running(ss[s]) THEN CurrentElapsed(ss[s], now) ELSE Get(ss[s].timer_paused_elapsed, 0)

\* "Stop & Save" pressed in session s, from Running or from Paused
Stop(s) == StopRunning(s) \/ StopPaused(s)

\* The in-session timer is Idle: not running, start cleared, paused elapsed 0
Idle(st) ==
  /\ st.timer_running = {FALSE}
  /\ st.timer_start = {NoneTime}
  /\ st.timer_paused_elapsed = {0}

\* C1: Stop & Save, pressed from Running or from Paused, appends exactly one
\* entry (source "timer", of the session's user and task); afterwards the
\* user has no snapshot and the in-session timer is Idle.
C1_StopAppendsOneEntryAndClears ==
  [][\A s \in Sessions : Stop(s) =>
        /\ \E l \in time_logs' \ time_logs :
              /\ time_logs' = time_logs \cup {l}
              /\ l.source = "timer"
              /\ l.user_id = Val(ss[s].user_id)
              /\ l.task_id = SessionTask(s)
        /\ get_active_timer(active_timers', Val(ss[s].user_id)) = {}
        /\ Idle(ss'[s])]_vars

\* C2: pause/resume conservation.  A Pause adds to the accumulated elapsed of
\* the snapshot exactly the length of the running interval it ends (after a
\* Start the accumulated elapsed is 0, so start at 0 and pause at d gives d),
\* and a Resume leaves the accumulated elapsed unchanged.
C2_PauseResumeConservation ==
  [][\A s \in Sessions :
        /\ Pause(s) =>
              \A r \in Snapshot(s) :
                (r.is_running = 1 /\ r.start_time = StartIso(ss[s])) =>
                   /\ ss'[s].timer_paused_elapsed =
                         {r.paused_elapsed + (now - Val(ss[s].timer_start))}
                   /\ \A q \in get_active_timer(active_timers', Val(ss[s].user_id)) :
                         q.paused_elapsed = r.paused_elapsed + (now - Val(ss[s].timer_start))
        /\ Resume(s) =>
              /\ ss'[s].timer_paused_elapsed = ss[s].timer_paused_elapsed
              /\ \A q \in get_active_timer(active_timers', Val(ss[s].user_id)) :
                    q.paused_elapsed = Val(ss[s].timer_paused_elapsed)]_vars

\* C3: the duration of the entry appended by Stop has one-second precision:
\* when the final elapsed time is a whole number s of seconds, the stored
\* duration_minutes converted back by int(duration_minutes * 60) is s.
C3_DurationReadsBackToTheSecond ==
  [][\A s \in Sessions :
        (Stop(s) /\ FinalElapsed(s) % TicksPerSecond = 0) =>
           \A l \in time_logs' \ time_logs :
              DurationSeconds(l.duration_minutes) = FinalElapsed(s) \div TicksPerSecond]_vars

\* Session s loads the timer page: a full run that ends with the dashboard
\* on screen, after a login or a navigation.
Load(s) ==
  /\ Navigate(s, "timer") \/ \E u \in Users : Login(s, u)
  /\ ss'[s].current_page = "timer"
  /\ ss'[s].frag_tasks # {}

\* A session with empty in-memory timer state
FreshSession(st) ==
  /\ st.db_synced = {}
  /\ st.timer_running = {}
  /\ st.timer_start = {}
  /\ st.timer_paused_elapsed = {}
  /\ st.timer_task_id = {}

\* C4: recovery with a snapshot present.  A fresh session that loads the timer
\* page takes running/paused, task, subtask and elapsed from the snapshot and
\* the clock (Running: paused_elapsed + now - start_time; Paused: its
\* paused_elapsed), and shows the same values as the original session, the
\* other session of the user that wrote the snapshot, shows at that instant.
C4_RecoveryFromSnapshot ==
  [][\A s \in Sessions : \A o \in Sessions \ {s} :
        (/\ Load(s)
         /\ FreshSession(ss[s])
         /\ OnTimer(o)
         /\ ss[o].user_id = ss'[s].user_id
         /\ Snapshot(o) # {})
        => \A r \in Snapshot(o) :
             /\ ss'[s].timer_running = {IntToBool(r.is_running)}
             /\ ss'[s].timer_task_id = {r.task_id}
             /\ ss'[s].timer_subtask_id = {r.subtask_id}
             /\ Elapsed(ss'[s], now) =
                  IF r.is_running = 1
                  THEN r.paused_elapsed + (now - FromIsoFormat(r.start_time))
                  ELSE r.paused_elapsed
             /\ ss'[s].timer_running = ss[o].timer_running
             /\ ss'[s].timer_task_id = ss[o].timer_task_id
             /\ ShownElapsed(ss'[s], now) = ShownElapsed(ss[o], now)]_vars

\* C5: recovery with no snapshot.  Whenever the timer page is loaded for a
\* user who has no snapshot in the store, the page is in the not-started
\* state: not running, elapsed 0 shown, only Start offered.
C5_NoSnapshotLoadsIdle ==
  [][\A s \in Sessions :
        (Load(s) /\ get_active_timer(active_timers', Val(ss'[s].user_id)) = {})
        => NotStarted(ss'[s], now)]_vars

\* C6: Reset while Paused deletes the user's snapshot, sets the elapsed time
\* to 0 and leaves the set of time log entries unchanged.
C6_ResetDeletesSnapshotKeepsLog ==
  [][\A s \in Sessions : Reset(s) =>
        /\ get_active_timer(active_timers', Val(ss[s].user_id)) = {}
        /\ ss'[s].timer_paused_elapsed = {0}
        /\ Elapsed(ss'[s], now) = 0
        /\ time_logs' = time_logs
        /\ log_seq' = log_seq]_vars

\* A session that has paused with at least a second and then pressed Reset:
\* db_synced is False, nothing was ever logged, the snapshot is gone.
C6_Witness ==
  \E s \in Sessions :
    /\ OnTimer(s)
    /\ ss[s].db_synced = {FALSE}
    /\ Has(ss[s].timer_task_id)
    /\ ss[s].timer_paused_elapsed = {0}
    /\ Snapshot(s) = {}
    /\ log_seq = 0
    /\ time_logs = {}

\* C7: a Start for a user who already has a snapshot with is_running = true
\* fails: the snapshot keeps its start_time and paused_elapsed.
C7_StartOnRunningSnapshotFails ==
  [][\A s \in Sessions : Start(s) =>
        \A r \in Snapshot(s) :
           r.is_running = 1 =>
             \E q \in get_active_timer(active_timers', Val(ss[s].user_id)) :
                /\ q.start_time = r.start_time
                /\ q.paused_elapsed = r.paused_elapsed]_vars

C9_SnapshotIffRunningOrPaused ==
  \A s \in Sessions :
    OnTimer(s) => (Snapshot(s) = {} <=> NotStarted(ss[s], now))

\* C10: Pause, Resume or Stop issued when the user has no snapshot in the
\* store, and Pause on a paused snapshot or Resume on a running one, fail:
\* the store and the time log are left as they are.
C10_NoActiveTimerOrWrongStateFails ==
  [][\A s \in Sessions :
        /\ ((Pause(s) \/ Resume(s) \/ Stop(s)) /\ Snapshot(s) = {})
             => (active_timers' = active_timers /\ time_logs' = time_logs)
        /\ (Pause(s) /\ \E r \in Snapshot(s) : r.is_running = 0)
             => (active_timers' = active_timers /\ time_logs' = time_logs)
        /\ (Resume(s) /\ \E r \in Snapshot(s) : r.is_running = 1)
             => (active_timers' = active_timers /\ time_logs' = time_logs)]_vars

\* set_mode as the page offers it: the mode radio, a preset button or the
\* custom minutes input
set_mode(s) ==
  \/ \E mode \in {"stopwatch", "pomodoro"} : SetMode(s, mode)
  \/ \E p \in Presets : Preset(s, p)
  \/ \E m \in CustomChoices : SetCustom(s, m)

\* C11: in pomodoro mode remaining = max(0, target_minutes * 60 - elapsed) and
\* is never negative; once remaining is 0 while Running, every step that is
\* not a press of Pause or Stop (nor a set_mode call) leaves the timer Running,
\* leaves the elapsed fields of its snapshot as they are and creates no time
\* log entry: reaching the target triggers no transition.
C11_RemainingClampedNoAutoStop ==
  /\ \A s \in Sessions : (OnTimer(s) /\ ss[s].timer_mode = "pomodoro") => Remaining(ss[s], now) >= 0
  /\ [][\A s \in Sessions :
          /\ (ss'[s].current_page = "timer" /\ ss'[s].frag_tasks # {} /\ ss'[s].timer_mode = "pomodoro") =>
                /\ Remaining(ss'[s], now') >= 0
                /\ Remaining(ss'[s], now') + ShownElapsed(ss'[s], now') >=
                      TotalSeconds(ss'[s])
                /\ (Remaining(ss'[s], now') > 0 =>
                      Remaining(ss'[s], now') + ShownElapsed(ss'[s], now') =
                        TotalSeconds(ss'[s]))
          /\ (/\ OnTimer(s) /\ ss[s].timer_mode = "pomodoro"
              /\ Running(ss[s]) /\ Remaining(ss[s], now) = 0
              /\ ~(Pause(s) \/ Stop(s) \/ set_mode(s)))
             => /\ Running(ss'[s])
                /\ ss'[s].timer_start = ss[s].timer_start
                /\ ss'[s].timer_paused_elapsed = ss[s].timer_paused_elapsed
                /\ time_logs' = time_logs
                /\ \A r \in Snapshot(s) :
                      \E q \in get_active_timer(active_timers', Val(ss[s].user_id)) :
                         /\ q.is_running = r.is_running
                         /\ q.start_time = r.start_time
                         /\ q.paused_elapsed = r.paused_elapsed]_vars

\* A pomodoro of one minute that has been running for more than its minute.
C11_Witness ==
  \E s \in Sessions :
    /\ OnTimer(s)
    /\ ss[s].timer_mode = "pomodoro"
    /\ ss[s].pomodoro_minutes = {1}
    /\ Running(ss[s])
    /\ Elapsed(ss[s], now) > 60 * TicksPerSecond
    /\ Remaining(ss[s], now) = 0
    /\ Snapshot(s) # {}

\* C12: a set_mode interaction (mode radio, preset, custom minutes) made while
\* the timer is Running or Paused leaves the elapsed-time fields unchanged,
\* in the session (timer_running, timer_start, timer_paused_elapsed) and in
\* the persisted snapshot (is_running, start_time, paused_elapsed), so the
\* elapsed time computed from the snapshot is what it was before the call.
C12_SetModeKeepsElapsedFields ==
  [][\A s \in Sessions :
       (/\ OnTimer(s)
        /\ Running(ss[s]) \/ Paused(ss[s], now)
        /\ set_mode(s))
       => /\ ss'[s].timer_running = ss[s].timer_running
          /\ ss'[s].timer_start = ss[s].timer_start
          /\ ss'[s].timer_paused_elapsed = ss[s].timer_paused_elapsed
          /\ \A r \in Snapshot(s) :
                \E q \in get_active_timer(active_timers', Val(ss[s].user_id)) :
                   /\ q.is_running = r.is_running
                   /\ q.start_time = r.start_time
                   /\ q.paused_elapsed = r.paused_elapsed]_vars

\* C13: a change of the mode or of the pomodoro target made while the user
\* has a snapshot is persisted by the interaction that makes it: after the
\* step the snapshot's mode is the mode selected on the radio, and its
\* pomodoro_minutes is the preset pressed or the custom minutes entered.
C13_ModeAndTargetPersistedAtOnce ==
  [][\A s \in Sessions :
       (OnTimer(s) /\ Snapshot(s) # {}) =>
         /\ \A mode \in {"stopwatch", "pomodoro"} :
               SetMode(s, mode) =>
                 \A q \in get_active_timer(active_timers', Val(ss[s].user_id)) : q.mode = mode
         /\ \A p \in Presets :
               Preset(s, p) =>
                 \A q \in get_active_timer(active_timers', Val(ss[s].user_id)) :
                    q.mode = "pomodoro" /\ q.pomodoro_minutes = p
         /\ \A m \in CustomChoices :
               SetCustom(s, m) =>
                 \A q \in get_active_timer(active_timers', Val(ss[s].user_id)) :
                    q.mode = "pomodoro" /\ q.pomodoro_minutes = m]_vars

\* C14: every snapshot in the store is bound to an existing, active task of
\* its user, whatever happens to the task while the timer is Running or Paused.
C14_SnapshotTaskIsActive ==
  \A r \in active_timers : r.task_id \in get_tasks(tasks, r.user_id)

\* C15: every entry of the time log has a positive duration, whether it was
\* written by Stop & Save (also right after Start) or by the manual log.
C15_DurationPositive ==
  \A l \in time_logs : l.duration_minutes > 0

\* C16: the time log is append-only.  In every step an existing entry stays
\* in the log with its fields unchanged unless the step is the confirmed
\* delete of that very entry, and an entry is new in the log only if the step
\* is a manual log or a Stop & Save.
C16_TimeLogAppendOnly ==
  [][/\ \A l \in time_logs :
          l \in time_logs' \/ \E s \in Sessions : DeleteTimeLog(s, l.id)
     /\ (time_logs' \ time_logs # {}) =>
          \E s \in Sessions :
             \/ Stop(s)
             \/ \E t \in TaskIds, minutes \in ManualMinutes : ManualLog(s, t, minutes)]_vars

\* A timer transition of session s during which a call to the store fails
StoreFails(s) ==
  \/ StartStoreFails(s)
  \/ PauseStoreFails(s)
  \/ ResumeStoreFails(s)
  \/ ResetStoreFails(s)
  \/ StopStoreFails(s)
  \/ \E m \in CustomChoices : SetCustomStoreFails(s, m)
  \/ LoadStoreFails(s)

\* C17: whenever a call to the store fails during a timer transition (start,
\* pause, resume, stop, reset, target change, load), the run ends with the
\* failure shown; no transition goes on as if the snapshot had been saved.
C17_StoreFailureSurfaced ==
  [][\A s \in Sessions : StoreFails(s) => ss'[s].exception]_vars

\* The snapshot row q says what the session state st says about the timer.
Agrees(q, st) ==
  /\ q.task_id = Val(st.timer_task_id)
  /\ q.subtask_id = Val(st.timer_subtask_id)
  /\ IntToBool(q.is_running) = Val(st.timer_running)
  /\ q.start_time = StartIso(st)
  /\ q.paused_elapsed = Val(st.timer_paused_elapsed)

\* C18: after each of Start, Pause and Resume the user has a snapshot that
\* agrees with the session on task_id, subtask_id, is_running, start_time and
\* paused_elapsed (Start: running since now with paused_elapsed 0; Pause: not
\* running, no start_time; Resume: running since now, paused_elapsed as it
\* was), so a reload computes the elapsed time the live session computes.
C18_SnapshotAgreesWithSession ==
  [][\A s \in Sessions :
       /\ (Start(s) \/ Pause(s) \/ Resume(s)) =>
             \E q \in get_active_timer(active_timers', Val(ss[s].user_id)) :
                /\ Agrees(q, ss'[s])
                /\ q.paused_elapsed + (IF q.is_running = 1 THEN now - FromIsoFormat(q.start_time) ELSE 0)
                     = Elapsed(ss'[s], now)
       /\ Start(s) =>
             \E q \in get_active_timer(active_timers', Val(ss[s].user_id)) :
                q.start_time = IsoFormat(now) /\ q.paused_elapsed = 0 /\ q.is_running = 1
       /\ Pause(s) =>
             \E q \in get_active_timer(active_timers', Val(ss[s].user_id)) :
                q.start_time = "" /\ q.is_running = 0
       /\ Resume(s) =>
             \E q \in get_active_timer(active_timers', Val(ss[s].user_id)) :
                /\ q.start_time = IsoFormat(now) /\ q.is_running = 1
                /\ q.paused_elapsed = Val(ss[s].timer_paused_elapsed)]_vars

\* C19: in every session state and in every snapshot, a running timer has a
\* start time and a timer that is not running has none.
C19_RunningIffStartTime ==
  /\ \A s \in Sessions :
        (Has(ss[s].timer_running) \/ Has(ss[s].timer_start)) =>
           (Get(ss[s].timer_running, FALSE) <=> Get(ss[s].timer_start, NoneTime) # NoneTime)
  /\ \A r \in active_timers : (r.is_running = 1) <=> (r.start_time # "")

\* A timer that ran for more than a second and is now paused, in the session
\* and in the store.
C19_Witness ==
  \E s \in Sessions :
    /\ OnTimer(s)
    /\ Paused(ss[s], now)
    /\ Val(ss[s].timer_start) = NoneTime
    /\ \E r \in Snapshot(s) : r.is_running = 0 /\ r.start_time = "" /\ r.paused_elapsed > TicksPerSecond

\* C20: paused_elapsed is never negative, in any session state and in any
\* snapshot, whatever the wall clock reads (also a reading earlier than
\* start_time).
C20_PausedElapsedNonNegative ==
  /\ \A s \in Sessions : Get(ss[s].timer_paused_elapsed, 0) >= 0
  /\ \A r \in active_timers : r.paused_elapsed >= 0

\* C21: while the timer runs the open interval never counts negatively: the
\* elapsed time the page computes, which is also what Pause banks and Stop &
\* Save logs, is at least paused_elapsed whatever the wall clock reads.
C21_OpenIntervalNeverNegative ==
  \A s \in Sessions :
    (OnTimer(s) /\ Running(ss[s])) =>
       /\ Elapsed(ss[s], now) >= Val(ss[s].timer_paused_elapsed)
       /\ CurrentElapsed(ss[s], now) >= Val(ss[s].timer_paused_elapsed)

C23_RunningElapsedMonotonic ==
  [][\A s \in Sessions :
       (/\ OnTimer(s) /\ Running(ss[s])
        /\ ss'[s].current_page = "timer" /\ ss'[s].frag_tasks # {} /\ Running(ss'[s])
        /\ ss'[s].timer_start = ss[s].timer_start
        /\ ss'[s].user_id = ss[s].user_id
        /\ now' >= now)
       => /\ Elapsed(ss'[s], now') >= Elapsed(ss[s], now)
          /\ ShownElapsed(ss'[s], now') >= ShownElapsed(ss[s], now)]_vars

\* A timer that has been running for more than a second since its start_time.
C23_Witness ==
  \E s \in Sessions :
    /\ OnTimer(s)
    /\ Running(ss[s])
    /\ now - Val(ss[s].timer_start) > TicksPerSecond
    /\ ShownElapsed(ss[s], now) >= 1

\* C24: when a user logs in to a browser session that another user has just left,
\* the timer the page then shows is the new user's own: it agrees with the new
\* user's snapshot if there is one, and otherwise it is not running with
\* nothing elapsed and no task bound.
C24_LoginShowsOwnTimerOnly ==
  [][\A s \in Sessions : \A u \in Users :
       (SwitchUser(s, u) /\ ss'[s].current_page = "timer" /\ ss'[s].frag_tasks # {}) =>
          IF get_active_timer(active_timers, u) = {}
          THEN /\ ~Val(ss'[s].timer_running)
               /\ Val(ss'[s].timer_paused_elapsed) = 0
               /\ Get(ss'[s].timer_task_id, NULL) = NULL
               /\ Get(ss'[s].timer_subtask_id, NULL) = NULL
          ELSE \E q \in get_active_timer(active_timers, u) :
                  /\ ss'[s].timer_task_id = {q.task_id}
                  /\ ss'[s].timer_subtask_id = {q.subtask_id}
                  /\ ss'[s].timer_running = {IntToBool(q.is_running)}
                  /\ StartIso(ss'[s]) = q.start_time
                  /\ ss'[s].timer_paused_elapsed = {q.paused_elapsed}]_vars

\* C25: Stop & Save never loses the time of a session: a step of Stop & Save
\* that removes the user's snapshot appends the time log entry, and when the
\* entry is not appended the snapshot is still in the store.
C25_StopNeverLosesSession ==
  [][\A s \in Sessions :
       (Stop(s) /\ Snapshot(s) # {} /\ time_logs' = time_logs) =>
          get_active_timer(active_timers', Val(ss[s].user_id)) # {}]_vars

\* C26: one timer session (a Start until its Stop or Reset) yields at most one
\* time log entry: a Stop & Save that appends an entry is pressed on a timer
\* whose snapshot is still in the store, also when two browser sessions of the
\* user show the same running timer.
C26_OneEntryPerTimerSession ==
  [][\A s \in Sessions :
       (Stop(s) /\ time_logs' # time_logs) => Snapshot(s) # {}]_vars

\* C27: Pause, Resume and Stop & Save keep the task and subtask of the timer
\* session, whatever the task selectbox shows: Pause and Resume persist the
\* snapshot with the task and subtask it already had, and the entry appended
\* by Stop & Save carries them.
C27_TaskAndSubtaskOfSessionKept ==
  [][\A s \in Sessions : \A q \in active_timers :
       (Has(ss[s].user_id) /\ q \in Snapshot(s)) =>
       /\ (Pause(s) \/ Resume(s)) =>
             \A r \in get_active_timer(active_timers', Val(ss[s].user_id)) :
                r.task_id = q.task_id /\ r.subtask_id = q.subtask_id
       /\ Stop(s) =>
             \A l \in time_logs' \ time_logs :
                l.task_id = q.task_id /\ l.subtask_id = q.subtask_id]_vars

\* C28: the mode of a timer session survives recovery: when a run of the
\* Focus Timer page loads the user's snapshot into a session that had not
\* synced, the page is then in the mode of the snapshot, and for a pomodoro
\* snapshot the target is the persisted one.
C28_ModeSurvivesRecovery ==
  [][\A s \in Sessions : \A q \in active_timers :
       (/\ Has(ss[s].user_id) /\ q \in Snapshot(s)
        /\ ~Get(ss[s].db_synced, FALSE)
        /\ Reload(s) \/ Navigate(s, "timer")
        /\ ss'[s].current_page = "timer" /\ Get(ss'[s].db_synced, FALSE))
       => /\ ss'[s].timer_mode = q.mode
          /\ q.mode = "pomodoro" => ss'[s].pomodoro_minutes = {q.pomodoro_minutes}]_vars

\* C29: in pomodoro mode a preset button makes the target equal to the
\* preset: at the end of the rerun pomodoro_minutes is the preset value and
\* the countdown runs over that many minutes.
C29_PresetSetsTarget ==
  [][\A s \in Sessions : \A p \in Presets :
       Preset(s, p) => /\ ss'[s].pomodoro_minutes = {p}
                       /\ TotalSeconds(ss'[s]) = p * 60]_vars

\* C30: a task or a time log entry goes away only in a "Yes, delete" step
\* whose pending request names that very item; "Cancel" and a delete that
\* raises remove nothing; after any of the three answers the request is no
\* longer pending.
C30_DeleteOnlyAfterConfirmedRequest ==
  [][/\ \A t \in TaskIds :
          (TaskExists(tasks, t) /\ ~TaskExists(tasks', t)) =>
             \E s \in Sessions :
                ConfirmYes(s) /\ ss[s].confirm_delete = {[kind |-> "task", id |-> t]}
     /\ \A l \in time_logs \ time_logs' :
          \E s \in Sessions :
             ConfirmYes(s) /\ ss[s].confirm_delete = {[kind |-> "timelog", id |-> l.id]}
     /\ \A s \in Sessions :
          /\ (ConfirmYes(s) \/ ConfirmYesStoreFails(s) \/ ConfirmCancel(s)) =>
                ss'[s].confirm_delete = {}
          /\ (ConfirmYesStoreFails(s) \/ ConfirmCancel(s)) =>
                (tasks' = tasks /\ time_logs' = time_logs)]_vars

====
